---- MODULE Spec2Model ----
(***************************************************************************)
(* The GoBarber session cache (hooks/auth.tsx, AuthProvider) together with *)
(* the two Profile-screen handlers that call updateUser.                   *)
(*                                                                         *)
(* JavaScript is single threaded: every action below is one run-to-        *)
(* completion task (the code between two awaits).  The two external        *)
(* collaborators are asynchronous:                                         *)
(*   - AsyncStorage: a call only hands the operation to the native module, *)
(*     which executes the operations one at a time in the order they were  *)
(*     issued (storageQueue) and then wakes the awaiting task, if any;     *)
(*   - the HTTP client: a request is in flight until its response or its   *)
(*     error arrives.                                                      *)
(* Objects are functions from their own keys to values, so an absent key   *)
(* (undefined / null) is a key outside the DOMAIN.                         *)
(***************************************************************************)
EXTENDS Integers, Sequences, FiniteSets, Bags, TLC

(* ---------------------------- bounds ----------------------------------- *)
MaxSignIn == 2      \* signIn calls that may be in flight together
MaxUpdate == 1      \* Profile requests that may be in flight together
MaxQueue == 2       \* storage operations issued and not yet executed
MaxOverlap == 2     \* Profile requests in flight together, in SpecOverlap

(* ---------------------------- values ----------------------------------- *)
TokenKey == "@GoBarber:token"
UserKey == "@GoBarber:user"

UserFields == <<"id", "name", "email", "avatar_url">>

EmptyObject == [k \in {} |-> ""]

\* What POST sessions answers to credentials it accepts: the session of the
\* account they name.
Accounts ==
    [c \in {"a@x.com", "b@x.com"} |->
        IF c = "a@x.com"
        THEN [token |-> "t1",
              user |-> [id |-> "1", name |-> "A", email |-> "a@x.com", avatar_url |-> "u"]]
        ELSE [token |-> "t2",
              user |-> [id |-> "2", name |-> "B", email |-> "b@x.com", avatar_url |-> "w"]]]

\* What PUT /profile and PATCH users/avatar hand to updateUser (Partial<User>).
UpdatePayloads == {[name |-> "X"], [avatar_url |-> "v"]}

(* ------------------------- pure functions ------------------------------ *)
\* JSON.stringify of a flat object: its key/value pairs, one after the other.
RECURSIVE StringifyFrom(_, _)
StringifyFrom(obj, i) ==
    IF i > Len(UserFields) THEN <<>>
    ELSE (IF UserFields[i] \in DOMAIN obj
          THEN << <<UserFields[i], obj[UserFields[i]]>> >>
          ELSE <<>>) \o StringifyFrom(obj, i + 1)

JSONstringify(obj) == StringifyFrom(obj, 1)

\* JSON.parse of such a text: the object holding each pair's key and value.
JSONparse(text) ==
    [k \in {text[i][1] : i \in DOMAIN text} |->
        LET i == CHOOSE j \in DOMAIN text : text[j][1] = k IN text[i][2]]

\* {...a, ...b}
Spread(a, b) ==
    [k \in DOMAIN a \cup DOMAIN b |-> IF k \in DOMAIN b THEN b[k] ELSE a[k]]

Bearer(token) == "Bearer " \o token

\* AsyncStorage.multiSet / setItem and multiRemove, as the native module applies them.
StoreSet(s, kvs) == Spread(s, kvs)
StoreRemove(s, keys) == [k \in DOMAIN s \ keys |-> s[k]]

(* ------------------------------ state ---------------------------------- *)
VARIABLES
    store,           \* the persistent key-value store (survives restarts)
    storageQueue,    \* operations issued to AsyncStorage, not yet executed
    headers,         \* api.defaults.headers
    data,            \* useState<AuthState>: {} or {token, user}
    loading,         \* useState(true)
    load,            \* loadStorageData: where it stands
    signInPosts,     \* signIn calls waiting for the answer to POST sessions
    signOutCall,     \* signOut: where it stands
    profileRequests, \* Profile requests in flight: the bag of the states their
                     \* updateUser was created from
    signInResult,    \* how the signIn call that settled last ended
    overlapped       \* has signIn or updateUser been called since signOut was?

vars == <<store, storageQueue, headers, data, loading, load, signInPosts,
          signOutCall, profileRequests, signInResult, overlapped>>

Idle == [pc |-> "idle"]

HasUser(d) == "user" \in DOMAIN d

\* Every caller is a screen, and a screen is on display only once the startup
\* load is over: the sign-in screen while there is no user, the others while
\* there is one.
SignedOutScreen == ~loading /\ ~HasUser(data)
SignedInScreen == ~loading /\ HasUser(data)

Enqueue(op) == storageQueue' = Append(storageQueue, op)
QueueHasRoom == Len(storageQueue) < MaxQueue

\* The provider is constructed with an empty store on first launch: data = {},
\* loading = true, and the mount effect has called loadStorageData, which has
\* issued multiGet and waits for it.
Init ==
    /\ store = EmptyObject
    /\ storageQueue = << [op |-> "multiGet"] >>
    /\ headers = EmptyObject
    /\ data = EmptyObject
    /\ loading = TRUE
    /\ load = [pc |-> "multiGet"]
    /\ signInPosts = 0
    /\ signOutCall = Idle
    /\ profileRequests = EmptyBag
    /\ signInResult = "none"
    /\ overlapped = FALSE

(* ------------------------ the native storage --------------------------- *)
\* The native module executes the oldest operation and it succeeds.  The task
\* awaiting it, if any, becomes ready to resume.
StorageExec ==
    /\ storageQueue # <<>>
    /\ LET h == Head(storageQueue) IN
        /\ storageQueue' = Tail(storageQueue)
        /\ store' = CASE h.op = "multiSet" -> StoreSet(store, h.kvs)
                      [] h.op = "setItem" -> StoreSet(store, h.kvs)
                      [] h.op = "multiRemove" -> StoreRemove(store, h.keys)
                      [] OTHER -> store
        /\ load' = IF h.op = "multiGet"
                   THEN [pc |-> "resume", result |-> store]
                   ELSE load
        /\ signOutCall' = IF h.op = "multiRemove" THEN [pc |-> "resume"] ELSE signOutCall
    /\ UNCHANGED <<headers, data, loading, signInPosts, profileRequests, signInResult,
                   overlapped>>

\* The oldest operation fails: the store is left alone and the awaiting task,
\* if any, rejects at its await (nothing catches it).
StorageFail ==
    /\ storageQueue # <<>>
    /\ LET h == Head(storageQueue) IN
        /\ storageQueue' = Tail(storageQueue)
        /\ load' = IF h.op = "multiGet" THEN [pc |-> "rejected"] ELSE load
        /\ signOutCall' = IF h.op = "multiRemove" THEN Idle ELSE signOutCall
    /\ UNCHANGED <<store, headers, data, loading, signInPosts, profileRequests,
                   signInResult, overlapped>>

(* --------------------------- startup load ------------------------------ *)
\* loadStorageData without the line that sets the authorization header.
LoadStorageDataNoHeader ==
    /\ load.pc = "resume"
    /\ LET read == load.result IN
        IF TokenKey \in DOMAIN read /\ UserKey \in DOMAIN read
        THEN data' = [token |-> read[TokenKey], user |-> JSONparse(read[UserKey])]
        ELSE UNCHANGED data
    /\ loading' = FALSE
    /\ load' = [pc |-> "done"]
    /\ UNCHANGED <<store, storageQueue, headers, signInPosts, signOutCall,
                   profileRequests, signInResult, overlapped>>

\* loadStorageData after its await: token[1] and user[1] are the two values read.
LoadStorageData ==
    /\ load.pc = "resume"
    /\ LET read == load.result IN
        IF TokenKey \in DOMAIN read /\ UserKey \in DOMAIN read
        THEN /\ headers' = Spread(headers, [authorization |-> Bearer(read[TokenKey])])
             /\ data' = [token |-> read[TokenKey], user |-> JSONparse(read[UserKey])]
        ELSE UNCHANGED <<headers, data>>
    /\ loading' = FALSE
    /\ load' = [pc |-> "done"]
    /\ UNCHANGED <<store, storageQueue, signInPosts, signOutCall, profileRequests,
                   signInResult, overlapped>>

(* ------------------------------ signIn --------------------------------- *)
\* signIn is called: POST sessions is sent.
SignInCall ==
    /\ SignedOutScreen
    /\ signInPosts < MaxSignIn
    /\ signInPosts' = signInPosts + 1
    /\ overlapped' = (signOutCall # Idle)
    /\ UNCHANGED <<store, storageQueue, headers, data, loading, load, signOutCall,
                   profileRequests, signInResult>>

\* The server accepts the credentials and answers with the session of the
\* account they name: multiSet is issued and not awaited, the header and the
\* state are set, and the promise resolves.
SignIn(response) ==
    /\ signInPosts > 0
    /\ QueueHasRoom
    /\ Enqueue([op |-> "multiSet",
                kvs |-> (TokenKey :> response.token
                         @@ UserKey :> JSONstringify(response.user))])
    /\ headers' = Spread(headers, [authorization |-> Bearer(response.token)])
    /\ data' = [token |-> response.token, user |-> response.user]
    /\ signInPosts' = signInPosts - 1
    /\ signInResult' = "resolved"
    /\ UNCHANGED <<store, loading, load, signOutCall, profileRequests, overlapped>>

\* signIn with a handler that drops the session when the request fails.
SignInRejectClearsSession ==
    /\ signInPosts > 0
    /\ signInPosts' = signInPosts - 1
    /\ signInResult' = "rejected"
    /\ data' = EmptyObject
    /\ UNCHANGED <<store, storageQueue, headers, loading, load, signOutCall,
                   profileRequests, overlapped>>

\* The request fails (credentials refused, or the network): the await throws
\* and the promise rejects with that error.
SignInReject ==
    /\ signInPosts > 0
    /\ signInPosts' = signInPosts - 1
    /\ signInResult' = "rejected"
    /\ UNCHANGED <<store, storageQueue, headers, data, loading, load, signOutCall,
                   profileRequests, overlapped>>

(* ------------------------------ signOut -------------------------------- *)
\* signOut is called: multiRemove is issued and awaited.
SignOutCall ==
    /\ SignedInScreen
    /\ signOutCall = Idle
    /\ QueueHasRoom
    /\ Enqueue([op |-> "multiRemove", keys |-> {TokenKey, UserKey}])
    /\ signOutCall' = [pc |-> "multiRemove"]
    /\ overlapped' = FALSE
    /\ UNCHANGED <<store, headers, data, loading, load, signInPosts, profileRequests,
                   signInResult>>

\* signOut after its await.
SignOut ==
    /\ signOutCall.pc = "resume"
    /\ data' = EmptyObject
    /\ signOutCall' = Idle
    /\ overlapped' = FALSE
    /\ UNCHANGED <<store, storageQueue, headers, loading, load, signInPosts,
                   profileRequests, signInResult>>

(* ----------------------------- updateUser ------------------------------ *)
\* The state set by the updateUser that the render which saw the state d
\* created: d.token and d.user are fixed in its closure.
UpdatedData(d, updateData) ==
    Spread([k \in DOMAIN d \cap {"token"} |-> d[k]],
           [user |-> Spread(IF HasUser(d) THEN d.user ELSE EmptyObject, updateData)])

\* handleSignUp / handleUpdateAvatar run on the Profile screen: the request is
\* sent, and the callback that will hand the response to updateUser holds the
\* updateUser of the current render.
ProfileRequest ==
    /\ SignedInScreen
    /\ BagCardinality(profileRequests) < MaxUpdate
    /\ profileRequests' = profileRequests (+) SetToBag({data})
    /\ UNCHANGED <<store, storageQueue, headers, data, loading, load, signInPosts,
                   signOutCall, signInResult, overlapped>>

\* The response arrives and is handed to that updateUser: the state is set,
\* then setItem is issued with the response alone and awaited.
UpdateUser(closure, updateData) ==
    /\ BagIn(closure, profileRequests)
    /\ QueueHasRoom
    /\ data' = UpdatedData(closure, updateData)
    /\ Enqueue([op |-> "setItem", kvs |-> (UserKey :> JSONstringify(updateData))])
    /\ profileRequests' = profileRequests (-) SetToBag({closure})
    /\ overlapped' = (signOutCall # Idle)
    /\ UNCHANGED <<store, headers, loading, load, signInPosts, signOutCall, signInResult>>

\* The request fails: updateUser is not called.
ProfileRequestFail(closure) ==
    /\ BagIn(closure, profileRequests)
    /\ profileRequests' = profileRequests (-) SetToBag({closure})
    /\ UNCHANGED <<store, storageQueue, headers, data, loading, load, signInPosts,
                   signOutCall, signInResult, overlapped>>

\* Any request in flight may be the next one answered, or the next one to fail.
ProfileResponse ==
    \E closure \in BagToSet(profileRequests), updateData \in UpdatePayloads :
        UpdateUser(closure, updateData)

ProfileError ==
    \E closure \in BagToSet(profileRequests) : ProfileRequestFail(closure)

(* ------------------------------ restart -------------------------------- *)
\* The process ends and the application is started again: only the store is
\* kept.  Operations the native module had not executed yet are gone.
Restart ==
    /\ storageQueue' = << [op |-> "multiGet"] >>
    /\ headers' = EmptyObject
    /\ data' = EmptyObject
    /\ loading' = TRUE
    /\ load' = [pc |-> "multiGet"]
    /\ signInPosts' = 0
    /\ signOutCall' = Idle
    /\ profileRequests' = EmptyBag
    /\ signInResult' = "none"
    /\ overlapped' = FALSE
    /\ UNCHANGED store


Next ==
    \/ StorageExec
    \/ StorageFail
    \/ LoadStorageData
    \/ SignInCall
    \/ \E c \in DOMAIN Accounts : SignIn(Accounts[c])
    \/ SignInReject
    \/ SignOutCall
    \/ SignOut
    \/ ProfileRequest
    \/ ProfileResponse
    \/ ProfileError
    \/ Restart

Spec == Init /\ [][Next]_vars

(* ------------------------- what the claims use -------------------------- *)
\* No call is in flight and the native module has nothing left to execute.
Quiescent ==
    /\ load.pc = "done"
    /\ signInPosts = 0
    /\ signOutCall = Idle
    /\ profileRequests = EmptyBag
    /\ storageQueue = <<>>

SameProcess == load'.pc = "done" /\ load.pc = "done"

\* The steps in which a call settles.
SignInResolves == SameProcess /\ signInPosts' < signInPosts /\ signInResult' = "resolved"
SignInRejects == SameProcess /\ signInPosts' < signInPosts /\ signInResult' = "rejected"
SignOutCompletes == SameProcess /\ signOutCall.pc = "resume" /\ signOutCall' = Idle
LoadCompletes == load.pc = "resume" /\ load'.pc = "done"

\* The store holds the session (token, user).
Persisted(s, token, user) ==
    /\ TokenKey \in DOMAIN s /\ s[TokenKey] = token
    /\ UserKey \in DOMAIN s /\ s[UserKey] = JSONstringify(user)

HeaderIs(h, token) ==
    "authorization" \in DOMAIN h /\ h["authorization"] = Bearer(token)

(* -------------------------------- C1 ----------------------------------- *)
\* C1: when signIn's promise resolves, for the (token, user) the server
\* returned, the store holds the token and the serialized user, the state in
\* memory is (token, user) and the authorization header is 'Bearer <token>'.
C1_SignInPostcondition ==
    [][SignInResolves =>
        \E c \in DOMAIN Accounts :
            /\ data' = [token |-> Accounts[c].token, user |-> Accounts[c].user]
            /\ HeaderIs(headers', Accounts[c].token)
            /\ Persisted(store', Accounts[c].token, Accounts[c].user)]_vars

(* -------------------------------- C2 ----------------------------------- *)
\* C2: when signOut completes, with every signIn and updateUser called before
\* signOut was, both persisted keys are absent and the user in memory is empty.
C2_SignOutClearsEverything ==
    [][(SignOutCompletes /\ ~overlapped) =>
        /\ TokenKey \notin DOMAIN store'
        /\ UserKey \notin DOMAIN store'
        /\ ~HasUser(data')]_vars

(* -------------------------------- C3 ----------------------------------- *)
\* C3: with no operation in flight, the authorization header is absent when the
\* session in memory is empty and is 'Bearer <token>' of the session otherwise.
C3_HeaderReflectsToken ==
    Quiescent =>
        /\ data = EmptyObject => "authorization" \notin DOMAIN headers
        /\ "token" \in DOMAIN data => HeaderIs(headers, data["token"])

(* -------------------------------- C4 ----------------------------------- *)
\* C4: the startup load ends with loading = false and, when the store holds
\* neither key, with the user empty and the header untouched; when it holds
\* both, with the persisted token, the deserialized persisted user and the
\* header 'Bearer <persisted token>'.
C4_LoadOutcome ==
    [][LoadCompletes =>
        /\ ~loading'
        /\ (TokenKey \notin DOMAIN store /\ UserKey \notin DOMAIN store) =>
              (data' = EmptyObject /\ headers' = headers)
        /\ (TokenKey \in DOMAIN store /\ UserKey \in DOMAIN store) =>
              /\ data' = [token |-> store[TokenKey], user |-> JSONparse(store[UserKey])]
              /\ headers' = [authorization |-> Bearer(store[TokenKey])]]_vars

\* The load has ended Authenticated from the persisted session of an earlier run.
C4_Witness ==
    /\ Quiescent /\ ~loading
    /\ signInResult = "none"
    /\ HasUser(data)
    /\ Persisted(store, data["token"], data["user"])
    /\ HeaderIs(headers, data["token"])

(* -------------------------------- C5 ----------------------------------- *)
\* C5: whatever the store holds and whether or not the storage read fails, the
\* startup load leaves Loading: once the read has settled and the load has run
\* as far as it goes, loading is false.
C5_LoadingIsLeft ==
    load.pc \in {"done", "rejected"} => ~loading

(* -------------------------------- C6 ----------------------------------- *)
\* C6: updateUser(p) called while the session in memory is (t, u) leaves it as
\* (t, u merged with p).
C6_UpdateUserMerges ==
    [][\A closure \in BagToSet(profileRequests), p \in UpdatePayloads :
          (UpdateUser(closure, p) /\ HasUser(data)) =>
              data' = [token |-> data["token"], user |-> Spread(data["user"], p)]]_vars

(* -------------------------------- C7 ----------------------------------- *)
\* C7: when the store write of a signIn or of an updateUser has been executed
\* and no operation is in flight, the store holds the token and the serialized
\* user of the session in memory.
C7_MemoryAndStoreConverge ==
    [][(/\ storageQueue # <<>>
        /\ Head(storageQueue).op \in {"multiSet", "setItem"}
        /\ store' = StoreSet(store, Head(storageQueue).kvs)
        /\ Quiescent' /\ HasUser(data')) =>
            Persisted(store', data'["token"], data'["user"])]_vars

(* -------------------------------- C8 ----------------------------------- *)
\* C8: when POST sessions fails and signIn rejects, nothing is written: the
\* store, the storage operations issued, the header and the state in memory
\* are what they were.
C8_FailedSignInWritesNothing ==
    [][SignInRejects => UNCHANGED <<store, storageQueue, headers, data>>]_vars

\* A signIn has rejected while another one had already opened a session.
C8_Witness ==
    /\ signInResult = "rejected"
    /\ HasUser(data)
    /\ Persisted(store, data["token"], data["user"])

(* -------------------------------- C9 ----------------------------------- *)
\* C9: signIn does not set the session in memory before its storage write has
\* settled: when it sets (token, user), the store holds (token, user).
C9_SignInWritesThrough ==
    [][SignInResolves => Persisted(store, data'["token"], data'["user"])]_vars

(* -------------------------------- C10 ---------------------------------- *)
\* C10: once the startup load is over, the user in memory goes from empty to
\* present only in a step in which a signIn resolves.
C10_OnlySignInAuthenticates ==
    [][(~loading /\ ~HasUser(data) /\ HasUser(data')) => SignInResolves]_vars

(* ----------------- two Profile requests in flight together ------------- *)
\* The Profile screen sends a request while earlier ones are still in flight:
\* the avatar PATCH and the profile PUT, or the same handler run again.  Like
\* ProfileRequest, the callback holds the updateUser of the current render.
ProfileRequestOverlapping ==
    /\ SignedInScreen
    /\ BagCardinality(profileRequests) >= MaxUpdate
    /\ BagCardinality(profileRequests) < MaxOverlap
    /\ profileRequests' = profileRequests (+) SetToBag({data})
    /\ UNCHANGED <<store, storageQueue, headers, data, loading, load, signInPosts,
                   signOutCall, signInResult, overlapped>>

NextOverlap ==
    \/ Next
    \/ ProfileRequestOverlapping

SpecOverlap == Init /\ [][NextOverlap]_vars

(* -------------------------------- C11 ---------------------------------- *)
\* C11: no update is lost between two updateUser calls: when updateUser(p2)
\* runs, through the callback of a request sent in the state d, and the state
\* in memory is d as updateUser(p1) left it, the user in memory afterwards has
\* every field of p1 that p2 does not name, and every field of p2.
C11_NoLostUpdate ==
    [][\A closure \in BagToSet(profileRequests), p1 \in UpdatePayloads,
          p2 \in UpdatePayloads :
          (/\ UpdateUser(closure, p2)
           /\ data = UpdatedData(closure, p1)
           /\ data # closure) =>
              /\ HasUser(data')
              /\ \A k \in DOMAIN p1 \ DOMAIN p2 :
                    k \in DOMAIN data'["user"] /\ data'["user"][k] = p1[k]
              /\ \A k \in DOMAIN p2 :
                    k \in DOMAIN data'["user"] /\ data'["user"][k] = p2[k]]_vars

====
